---- MODULE Spec2Model ----
(***************************************************************************)
(* Model of the distribcalc TCP server (src/src/distribcalc): the accept   *)
(* loop of DistributedPrimeServer.serve_forever, one session thread per    *)
(* connection (_handle_client), the protocol codec (Message.from_wire),    *)
(* the TaskDispatcher with its process pool and the lock-protected         *)
(* ServerStats record.                                                     *)
(*                                                                         *)
(* Each statement of a `with lock:` block is a step: the first takes the   *)
(* lock, the last releases it.  Strings built by f-strings are sequences   *)
(* of their pieces; None is the empty sequence.  Durations are whole       *)
(* microseconds, the resolution of round(x, 6).                            *)
(***************************************************************************)
EXTENDS Integers, Sequences, FiniteSets, TLC

\* ------------------------------------------------------------ bounds
\* Connections the acceptor takes in one run.
MaxSessions == 2
\* Frames read from the sockets of all sessions together in one run.
MaxFrames == 2
\* Largest elapsed time of one pool call, in microseconds.
MaxDuration == 1
\* frames read, over all sessions, in the runs checked for progress
MaxFairFrames == 1
\* is_prime is called on -MaxN .. MaxN
MaxN == 60
\* primes_in_range and count_primes are called on pairs of -2 .. MaxArg
MaxArg == 12
\* execute_range and execute_count are also called on ranges up to MaxEnd,
\* which hold more primes than a response lists
MaxEnd == 1229

\* ------------------------------------------------------------ constants
\* execute_range returns at most this many primes.
RangeLimit == 200

Sessions == 1 .. MaxSessions
Durations == 1 .. MaxDuration
\* threading.Lock(): the owner of an unlocked lock.
NoThread == 0
None == << >>

\* ------------------------------------------------------------ JSON values
JNull == [t |-> "null"]
JBool(b) == [t |-> "bool", b |-> b]
JInt(n) == [t |-> "int", n |-> n]
JFloat == [t |-> "float"]
JStr(s) == [t |-> "str", s |-> s]
JArray == [t |-> "array"]
JObj(f) == [t |-> "object", f |-> f]

\* A line read from the socket: text that json.loads rejects, or the value
\* json.loads returns for it.
\* raw.decode("utf-8") fails on NotUTF8.
NotUTF8 == [utf8 |-> FALSE, valid |-> FALSE]
NotJSON == [utf8 |-> TRUE, valid |-> FALSE]
Line(v) == [utf8 |-> TRUE, valid |-> TRUE, value |-> v]

EmptyMap == [k \in {} |-> JNull]
Get(f, key) == IF key \in DOMAIN f THEN f[key] ELSE JNull
IsInstanceInt(v) == v.t \in {"int", "bool"}
IsInstanceStr(v) == v.t = "str"
IsInstanceDict(v) == v.t = "object"
IntOf(v) == IF v.t = "bool" THEN (IF v.b THEN 1 ELSE 0) ELSE v.n

\* str.lower() on the command strings of the frames below.
Lower(s) ==
  CASE s = "PRIME" -> "prime"
    [] s = "Range" -> "range"
    [] s = "COUNT" -> "count"
    [] s = "Stats" -> "stats"
    [] OTHER -> s

\* ------------------------------------------------------------ protocol.py
Raise(class, text) == [ok |-> FALSE, class |-> class, error |-> text]
ProtocolError(text) == Raise("ProtocolError", text)

from_wire(raw) ==
  IF ~raw.valid THEN ProtocolError(<<"payload is not valid JSON">>)
  ELSE LET loaded == raw.value IN
    IF ~IsInstanceDict(loaded)
    THEN ProtocolError(<<"payload must be a JSON object">>)
    ELSE LET command == Get(loaded.f, "command")
             data0 == Get(loaded.f, "data")
             data == IF data0 = JNull THEN JObj(EmptyMap) ELSE data0
         IN IF ~IsInstanceStr(command)
            THEN ProtocolError(<<"command field must be a string">>)
            ELSE IF ~IsInstanceDict(data)
            THEN ProtocolError(<<"data field must be a JSON object">>)
            ELSE [ok |-> TRUE, command |-> Lower(command.s), data |-> data.f]

encode_response(payload, status) == [status |-> status, payload |-> payload]
encode_error(message) == encode_response([error |-> message], "error")

\* ------------------------------------------------------------ tasks.py
isqrt(n) == CHOOSE r \in 0 .. n : r * r <= n /\ (r + 1) * (r + 1) > n

RECURSIVE TrialDivision(_, _, _, _)
TrialDivision(n, limit, k, step) ==
  IF k > limit THEN TRUE
  ELSE IF n % k = 0 THEN FALSE
  ELSE TrialDivision(n, limit, k + step, 6 - step)

\* A test that stops after the divisors 2 and 3.
IsPrimeWheelOnly(n) ==
  n >= 2 /\ (n \in {2, 3} \/ (n % 2 # 0 /\ n % 3 # 0))

is_prime(n) ==
  IF n < 2 THEN FALSE
  ELSE IF n \in {2, 3} THEN TRUE
  ELSE IF n % 2 = 0 \/ n % 3 = 0 THEN FALSE
  ELSE TrialDivision(n, isqrt(n), 5, 2)

\* for value in range(start, end + 1): if is_prime(value): primes.append(value)
Scan(value, end) ==
  SelectSeq([i \in 1 .. (end - value + 1) |-> value + i - 1], is_prime)

\* primes_in_range without the swap of start > end.
PrimesInRangeNoSwap(start, end) == Scan(start, end)

primes_in_range(start, end) ==
  IF start > end THEN Scan(end, start) ELSE Scan(start, end)

\* A count that scans from start to end as given.
CountPrimesNoSwap(start, end) == Len(Scan(start, end))

count_primes(start, end) == Len(primes_in_range(start, end))

\* ------------------------------------------------------------ server.py
\* str(exc) and repr(exc) of an exception [class, error].
Str(exc) == exc.error
Repr(exc) == <<exc.class, "(">> \o exc.error \o <<")">>

_require_int(data, key) ==
  LET value == Get(data, key) IN
    IF ~IsInstanceInt(value)
    THEN ProtocolError(<<"field '", key, "' must be an integer">>)
    ELSE [ok |-> TRUE, value |-> value]

\* _dispatch_command up to the call of the dispatcher: the validated call, or
\* the ProtocolError raised before it.
_dispatch_command(message) ==
  LET command == message.command
      data == message.data
      number == _require_int(data, "number")
      start == _require_int(data, "start")
      end == _require_int(data, "end")
  IN CASE command = "prime" ->
            IF ~number.ok THEN number
            ELSE [ok |-> TRUE, op |-> "prime", args |-> <<number.value>>]
       [] command \in {"range", "count"} ->
            IF ~start.ok THEN start
            ELSE IF ~end.ok THEN end
            ELSE [ok |-> TRUE, op |-> command, args |-> <<start.value, end.value>>]
       [] command = "stats" -> [ok |-> TRUE, op |-> "stats", args |-> << >>]
       [] OTHER -> ProtocolError(<<"unknown command: ", command>>)

\* Line 194 and 195 of _handle_client: decode, from_wire, _dispatch_command.
Decode(raw) ==
  IF ~raw.utf8
  THEN Raise("UnicodeDecodeError", <<"'utf-8' codec can't decode byte">>)
  ELSE LET message == from_wire(raw) IN
    IF ~message.ok THEN message ELSE _dispatch_command(message)

\* A first handler that catches every Exception.
IsAnyException(exc) == TRUE

\* except (ProtocolError, ValueError): UnicodeDecodeError is a ValueError.
IsProtocolOrValueError(exc) ==
  exc.class \in {"ProtocolError", "ValueError", "UnicodeDecodeError"}

\* ServerStats()
ServerStats ==
  [total_requests |-> 0, prime_checks |-> 0, range_requests |-> 0,
   range_counts |-> 0, cumulative_duration |-> 0, max_duration |-> 0,
   active_clients |-> 0, completed_clients |-> 0, last_error |-> None]

register_duration(s, duration) ==
  [s EXCEPT !.max_duration = IF duration > @ THEN duration ELSE @,
            !.cumulative_duration = @ + duration]

\* round(cumulative / total, 6) in microseconds: to the nearest, ties to even.
RoundDiv(a, b) ==
  LET q == a \div b
      r == a % b
  IN IF 2 * r < b THEN q
     ELSE IF 2 * r > b THEN q + 1
     ELSE IF q % 2 = 0 THEN q ELSE q + 1

average_duration(s) ==
  IF s.total_requests = 0 THEN 0
  ELSE RoundDiv(s.cumulative_duration, s.total_requests)

snapshot(s) ==
  [total_requests |-> s.total_requests,
   prime_checks |-> s.prime_checks,
   range_requests |-> s.range_requests,
   range_counts |-> s.range_counts,
   average_duration_sec |-> average_duration(s),
   max_duration_sec |-> s.max_duration,
   active_clients |-> s.active_clients,
   completed_clients |-> s.completed_clients,
   last_error |-> s.last_error]

\* An _update_stats that has not counted the request yet when the response is
\* written.
IncrementTotalDeferred(s) == s

\* _update_stats, line 70.
IncrementTotal(s) == [s EXCEPT !.total_requests = @ + 1]

\* _update_stats with the "count" branch counting under range_requests.
IncrementCommandMiscounted(s, command, duration) ==
  register_duration(
    CASE command = "prime" -> [s EXCEPT !.prime_checks = @ + 1]
      [] command \in {"range", "count"} -> [s EXCEPT !.range_requests = @ + 1]
      [] OTHER -> s,
    duration)

\* _update_stats, lines 71 to 77.
IncrementCommand(s, command, duration) ==
  register_duration(
    CASE command = "prime" -> [s EXCEPT !.prime_checks = @ + 1]
      [] command = "range" -> [s EXCEPT !.range_requests = @ + 1]
      [] command = "count" -> [s EXCEPT !.range_counts = @ + 1]
      [] OTHER -> s,
    duration)

\* A response that lists every prime.
TruncateNever(primes) == primes

\* primes[:200]
Truncate(primes) ==
  IF Len(primes) <= RangeLimit THEN primes ELSE SubSeq(primes, 1, RangeLimit)

\* The payload execute_prime, execute_range or execute_count returns.
Payload(call, duration) ==
  CASE call.op = "prime" ->
         [number |-> call.args[1], is_prime |-> is_prime(IntOf(call.args[1]))]
    [] call.op = "range" ->
         LET primes == primes_in_range(IntOf(call.args[1]), IntOf(call.args[2]))
         IN [start |-> call.args[1], end |-> call.args[2],
             count |-> Len(primes), primes |-> Truncate(primes),
             truncated |-> Len(primes) > RangeLimit, duration_sec |-> duration]
    [] call.op = "count" ->
         [start |-> call.args[1], end |-> call.args[2],
          count |-> count_primes(IntOf(call.args[1]), IntOf(call.args[2])),
          duration_sec |-> duration]

\* ------------------------------------------------------------ frames
Obj1(k, v) == JObj([x \in {k} |-> v])
Request(command, data) ==
  Line(JObj([x \in {"command", "data"} |->
               IF x = "command" THEN JStr(command) ELSE data]))
Range(a, b) ==
  JObj([x \in {"start", "end"} |-> IF x = "start" THEN JInt(a) ELSE JInt(b)])

\* The lines a peer sends.
Frames ==
  { NotUTF8,
    NotJSON,
    Line(JArray),
    Line(Obj1("data", JObj(EmptyMap))),
    Line(Obj1("command", JInt(7))),
    Request("prime", JArray),
    Line(Obj1("command", JStr("bogus"))),
    Line(Obj1("command", JStr("PRIME"))),
    Request("prime", Obj1("number", JStr("7"))),
    Request("range", Obj1("start", JInt(1))),
    Request("prime", Obj1("number", JInt(7))),
    Request("Range", Range(1, 10)),
    Request("COUNT", Range(10, 1)),
    Line(Obj1("command", JStr("Stats"))) }

\* ------------------------------------------------------------ state
VARIABLES
  shutdown_event,       \* self._shutdown_event
  client_counter,       \* self._client_counter
  client_counter_lock,  \* owner of self._client_counter_lock
  stats_lock,           \* owner of self._stats_lock
  stats,                \* self._stats
  threads,              \* self._threads
  mpc,                  \* position of the thread running serve_forever
  thread,               \* serve_forever's local `thread`
  joined,               \* threads of self._threads already joined
  pool,                 \* the executor: "running" or "shutdown"
  fut,                  \* per session: state of the future it submitted
  pc,                   \* per session: position in _handle_client
  current,              \* per session: `current` of _register_client
  client_id,            \* per session: `client_id` of _handle_client
  work,                 \* per session: decoded call or raised exception
  duration,             \* per session: `duration` of execute_*
  response,             \* per session: frame about to be written
  raw,                  \* per session: `raw`, the line being handled
  nreq,                 \* per session: lines read so far
  nresp,                \* per session: frames written so far
  served,               \* per command: successful responses written
  events,               \* per session: register / completion calls made
  assigned,             \* client ids in the order they were assigned
  fn_call,              \* a function of the package called on its own
  fn_result             \* what that call returned or raised

vars ==
  <<shutdown_event, client_counter, client_counter_lock, stats_lock, stats,
    threads, mpc, thread, joined, pool, fut, pc, current, client_id, work,
    duration, response, raw, nreq, nresp, served, events, assigned,
    fn_call, fn_result>>

mainVars == <<threads, mpc, thread, joined>>
lockVars == <<client_counter_lock, stats_lock>>
localVars == <<current, client_id, work, duration, response>>
logVars == <<raw, nreq, nresp, served, events, assigned>>
fnVars == <<fn_call, fn_result>>

NoLine == [none |-> TRUE]
Idle == [ok |-> TRUE, op |-> "idle", args |-> << >>]
NoResponse == [status |-> "none"]
NoCall == [fn |-> "none"]
Terminated == {"done", "crashed"}
Spawned == {t \in Sessions : pc[t] # "unborn"}
FramesRead == LET RECURSIVE Sum(_)
                  Sum(n) == IF n = 0 THEN 0 ELSE nreq[n] + Sum(n - 1)
              IN Sum(MaxSessions)

\* The server as DistributedPrimeServer() builds it.
ServerInit ==
  /\ shutdown_event = FALSE
  /\ client_counter = 0
  /\ client_counter_lock = NoThread
  /\ stats_lock = NoThread
  /\ stats = ServerStats
  /\ threads = << >>
  /\ mpc = "loop"
  /\ thread = NoThread
  /\ joined = 0
  /\ pool = "running"
  /\ fut = [t \in Sessions |-> "none"]
  /\ pc = [t \in Sessions |-> "unborn"]
  /\ current = [t \in Sessions |-> 0]
  /\ client_id = [t \in Sessions |-> 0]
  /\ work = [t \in Sessions |-> Idle]
  /\ duration = [t \in Sessions |-> 0]
  /\ response = [t \in Sessions |-> NoResponse]
  /\ raw = [t \in Sessions |-> NoLine]
  /\ nreq = [t \in Sessions |-> 0]
  /\ nresp = [t \in Sessions |-> 0]
  /\ served = [op \in {"prime", "range", "count"} |-> 0]
  /\ events = [t \in Sessions |-> << >>]
  /\ assigned = << >>

Init == ServerInit /\ fn_call = NoCall /\ fn_result = NoCall

\* ------------------------------------------------------------ serve_forever
\* What a step of the thread running serve_forever leaves alone.
SessionVars ==
  <<client_counter, lockVars, stats, fut, pc, localVars, logVars, fnVars>>

\* An accept loop that never looks at the flag: while True.
LoopTestIgnoringFlag ==
  /\ mpc = "loop"
  /\ mpc' = "accept"
  /\ UNCHANGED <<SessionVars, shutdown_event, threads, thread, joined, pool>>

\* while not self._shutdown_event.is_set()
LoopTest ==
  /\ mpc = "loop"
  /\ mpc' = IF shutdown_event THEN "join" ELSE "accept"
  /\ UNCHANGED <<SessionVars, shutdown_event, threads, thread, joined, pool>>

\* server_socket.accept() returns a connection; thread.start()
Accept ==
  /\ mpc = "accept"
  /\ Cardinality(Spawned) < MaxSessions
  /\ LET t == Cardinality(Spawned) + 1 IN
       /\ thread' = t
       /\ pc' = [pc EXCEPT ![t] = "register"]
  /\ mpc' = "append"
  /\ UNCHANGED <<shutdown_event, client_counter, lockVars, stats, threads,
                 joined, pool, fut, localVars, logVars, fnVars>>

\* except socket.timeout: continue
AcceptTimeout ==
  /\ mpc = "accept"
  /\ mpc' = "loop"
  /\ UNCHANGED <<SessionVars, shutdown_event, threads, thread, joined, pool>>

\* except OSError: break
AcceptOSError ==
  /\ mpc = "accept"
  /\ mpc' = "join"
  /\ UNCHANGED <<SessionVars, shutdown_event, threads, thread, joined, pool>>

\* self._threads.append(thread)
AppendThread ==
  /\ mpc = "append"
  /\ threads' = Append(threads, thread)
  /\ mpc' = "loop"
  /\ UNCHANGED <<SessionVars, shutdown_event, thread, joined, pool>>

\* SIGINT as run_server expects it: KeyboardInterrupt is raised in the thread
\* running serve_forever, between any two instructions of the try block, and
\* control goes to the finally block.
KeyboardInterrupt ==
  /\ mpc \in {"loop", "accept", "append"}
  /\ mpc' = "join"
  /\ UNCHANGED <<SessionVars, shutdown_event, threads, thread, joined, pool>>

\* for thread in self._threads: thread.join()
JoinThread ==
  /\ mpc = "join"
  /\ joined < Len(threads)
  /\ pc[threads[joined + 1]] \in Terminated
  /\ joined' = joined + 1
  /\ UNCHANGED <<SessionVars, shutdown_event, threads, mpc, thread, pool>>

JoinDone ==
  /\ mpc = "join"
  /\ joined >= Len(threads)
  /\ mpc' = "pool_shutdown"
  /\ UNCHANGED <<SessionVars, shutdown_event, threads, thread, joined, pool>>

\* self._executor.shutdown(wait=True): no new submissions from here on
PoolShutdown ==
  /\ mpc = "pool_shutdown"
  /\ pool' = "shutdown"
  /\ mpc' = "pool_wait"
  /\ UNCHANGED <<SessionVars, shutdown_event, threads, thread, joined>>

\* shutdown(wait=True) returns when no submitted future is pending.
ShutdownWaitOver(f) == \A t \in Sessions : f[t] # "pending"

PoolWait ==
  /\ mpc = "pool_wait"
  /\ ShutdownWaitOver(fut)
  /\ mpc' = "returned"
  /\ UNCHANGED <<SessionVars, shutdown_event, threads, thread, joined, pool>>

\* DistributedPrimeServer.shutdown(): from another thread, or from
\* run_server's KeyboardInterrupt handler once serve_forever has returned.
Shutdown ==
  /\ ~shutdown_event
  /\ shutdown_event' = TRUE
  /\ UNCHANGED <<SessionVars, mainVars, pool>>

\* ------------------------------------------------------------ locks
Free(lock) == lock = NoThread

\* ------------------------------------------------------------ _handle_client
\* What a session step leaves alone besides the session's own variables.
SessionFrame == <<shutdown_event, mainVars, pool, fnVars>>

\* _register_client: with self._client_counter_lock:
\*   self._client_counter += delta
RegisterCount(t) ==
  /\ pc[t] \in {"register", "unregister"}
  /\ Free(client_counter_lock)
  /\ client_counter_lock' = t
  /\ LET delta == IF pc[t] = "register" THEN 1 ELSE 0 - 1 IN
       /\ client_counter' = client_counter + delta
       /\ events' = [events EXCEPT ![t] = Append(@, delta)]
  /\ pc' = [pc EXCEPT ![t] = IF pc[t] = "register" THEN "register_cs"
                              ELSE "unregister_cs"]
  /\ UNCHANGED <<SessionFrame, stats_lock, stats, fut, localVars, raw, nreq,
                 nresp, served, assigned>>

\* A _register_client that calls set_active_clients inside the `with` block:
\* the counter lock is still held when the stats lock is asked for.
RegisterCurrentKeepingLock(t) ==
  /\ pc[t] \in {"register_cs", "unregister_cs"}
  /\ current' = [current EXCEPT ![t] = client_counter]
  /\ assigned' = IF pc[t] = "register_cs"
                 THEN Append(assigned, client_counter) ELSE assigned
  /\ pc' = [pc EXCEPT ![t] = IF pc[t] = "register_cs" THEN "active"
                              ELSE "inactive"]
  /\ UNCHANGED <<SessionFrame, client_counter, lockVars, stats, fut,
                 client_id, work, duration, response, raw, nreq, nresp,
                 served, events>>

\*   current = self._client_counter: on entry, the value that becomes client_id
RegisterCurrent(t) ==
  /\ pc[t] \in {"register_cs", "unregister_cs"}
  /\ current' = [current EXCEPT ![t] = client_counter]
  /\ client_counter_lock' = NoThread
  /\ assigned' = IF pc[t] = "register_cs"
                 THEN Append(assigned, client_counter) ELSE assigned
  /\ pc' = [pc EXCEPT ![t] = IF pc[t] = "register_cs" THEN "active"
                              ELSE "inactive"]
  /\ UNCHANGED <<SessionFrame, client_counter, stats_lock, stats, fut,
                 client_id, work, duration, response, raw, nreq, nresp,
                 served, events>>

\* The greeting frame the session writes on entry.
Greeting(id) ==
  encode_response([message |-> "connected", client_id |-> id], "ok")

\* set_active_clients(current); on entry, client_id = current and the
\* greeting is encoded
SetActiveClients(t) ==
  /\ pc[t] \in {"active", "inactive"}
  /\ Free(stats_lock)
  /\ stats' = [stats EXCEPT !.active_clients = current[t]]
  /\ IF pc[t] = "active"
     THEN /\ client_id' = [client_id EXCEPT ![t] = current[t]]
          /\ response' = [response EXCEPT ![t] = Greeting(current[t])]
          /\ pc' = [pc EXCEPT ![t] = "greet"]
     ELSE /\ UNCHANGED <<client_id, response>>
          /\ pc' = [pc EXCEPT ![t] = "done"]
  /\ UNCHANGED <<SessionFrame, client_counter, lockVars, fut, current, work,
                 duration, logVars>>

\* connection.write(greeting); connection.flush()
Greet(t) ==
  /\ pc[t] = "greet"
  /\ nresp' = [nresp EXCEPT ![t] = @ + 1]
  /\ response' = [response EXCEPT ![t] = NoResponse]
  /\ pc' = [pc EXCEPT ![t] = "loop"]
  /\ UNCHANGED <<SessionFrame, client_counter, lockVars, stats, fut, current,
                 client_id, work, duration, raw, nreq, served, events,
                 assigned>>

\* Where an OSError raised by the socket inside `with client_socket:` leaves
\* the session: no handler catches it, the thread ends.
AfterSocketError == "crashed"

\* The greeting write or flush raises (the peer has reset the connection).
GreetFails(t) ==
  /\ pc[t] = "greet"
  /\ response' = [response EXCEPT ![t] = NoResponse]
  /\ pc' = [pc EXCEPT ![t] = AfterSocketError]
  /\ UNCHANGED <<SessionFrame, client_counter, lockVars, stats, fut, current,
                 client_id, work, duration, logVars>>

\* while not self._shutdown_event.is_set()
SessionLoopTest(t) ==
  /\ pc[t] = "loop"
  /\ pc' = [pc EXCEPT ![t] = IF shutdown_event THEN "closed" ELSE "read"]
  /\ UNCHANGED <<SessionFrame, client_counter, lockVars, stats, fut,
                 localVars, logVars>>

\* A handler that drops a bad line without answering it.
AfterDecodeSilent(w) ==
  IF ~w.ok THEN "loop"
  ELSE IF w.op = "stats" THEN "stats" ELSE "submit"

\* Where the session goes once a line is decoded and validated.
AfterDecode(w) ==
  IF ~w.ok THEN "error"
  ELSE IF w.op = "stats" THEN "stats" ELSE "submit"

\* raw = connection.readline() returns a line; lines 194 and 195 up to the
\* call of the dispatcher
ReadFrame(t) ==
  /\ pc[t] = "read"
  /\ FramesRead < MaxFrames
  /\ \E line \in Frames :
       /\ raw' = [raw EXCEPT ![t] = line]
       /\ work' = [work EXCEPT ![t] = Decode(line)]
       /\ pc' = [pc EXCEPT ![t] = AfterDecode(Decode(line))]
  /\ nreq' = [nreq EXCEPT ![t] = @ + 1]
  /\ UNCHANGED <<SessionFrame, client_counter, lockVars, stats, fut, current,
                 client_id, duration, response, nresp, served, events,
                 assigned>>

\* readline() returns b"": the peer closed the stream
ReadEOF(t) ==
  /\ pc[t] = "read"
  /\ pc' = [pc EXCEPT ![t] = "closed"]
  /\ UNCHANGED <<SessionFrame, client_counter, lockVars, stats, fut,
                 localVars, logVars>>

\* readline() raises (ConnectionResetError)
ReadFails(t) ==
  /\ pc[t] = "read"
  /\ pc' = [pc EXCEPT ![t] = AfterSocketError]
  /\ UNCHANGED <<SessionFrame, client_counter, lockVars, stats, fut,
                 localVars, logVars>>

\* self._executor.submit(...): raises RuntimeError once the pool is shut down
Submit(t) ==
  /\ pc[t] = "submit"
  /\ IF pool = "shutdown"
     THEN /\ work' = [work EXCEPT ![t] = Raise("RuntimeError",
                 <<"cannot schedule new futures after shutdown">>)]
          /\ pc' = [pc EXCEPT ![t] = "error"]
          /\ UNCHANGED fut
     ELSE /\ fut' = [fut EXCEPT ![t] = "pending"]
          /\ pc' = [pc EXCEPT ![t] = "wait"]
          /\ UNCHANGED work
  /\ UNCHANGED <<SessionFrame, client_counter, lockVars, stats, current,
                 client_id, duration, response, logVars>>

\* .result() returns what the worker computed; duration = perf_counter() -
\* started
Result(t) ==
  /\ pc[t] = "wait"
  /\ fut[t] = "pending"
  /\ fut' = [fut EXCEPT ![t] = "none"]
  /\ \E d \in Durations : duration' = [duration EXCEPT ![t] = d]
  /\ pc' = [pc EXCEPT ![t] = "update"]
  /\ UNCHANGED <<SessionFrame, client_counter, lockVars, stats, current,
                 client_id, work, response, logVars>>

\* .result() raises: the worker process died (BrokenProcessPool)
ResultRaises(t) ==
  /\ pc[t] = "wait"
  /\ fut[t] = "pending"
  /\ fut' = [fut EXCEPT ![t] = "none"]
  /\ work' = [work EXCEPT ![t] = Raise("BrokenProcessPool",
        <<"A process in the process pool was terminated abruptly">>)]
  /\ pc' = [pc EXCEPT ![t] = "error"]
  /\ UNCHANGED <<SessionFrame, client_counter, lockVars, stats, current,
                 client_id, duration, response, logVars>>

\* _update_stats: with self._stats_lock: self._stats.total_requests += 1
UpdateTotal(t) ==
  /\ pc[t] = "update"
  /\ Free(stats_lock)
  /\ stats_lock' = t
  /\ stats' = IncrementTotal(stats)
  /\ pc' = [pc EXCEPT ![t] = "update_command"]
  /\ UNCHANGED <<SessionFrame, client_counter, client_counter_lock, fut,
                 localVars, logVars>>

\* _update_stats: the command's counter and register_duration; the payload
UpdateCommand(t) ==
  /\ pc[t] = "update_command"
  /\ stats' = IncrementCommand(stats, work[t].op, duration[t])
  /\ stats_lock' = NoThread
  /\ response' = [response EXCEPT ![t] =
        encode_response(Payload(work[t], duration[t]), "ok")]
  /\ pc' = [pc EXCEPT ![t] = "respond"]
  /\ UNCHANGED <<SessionFrame, client_counter, client_counter_lock, fut,
                 current, client_id, work, duration, logVars>>

\* stats() reading self._stats without taking the lock.
SnapshotUnlocked(lock) == TRUE

\* stats() kept out while any session waits for a pool result, as if
\* execute_* held the stats lock across .result().
SnapshotSerialisedWithPool(lock) ==
  Free(lock) /\ \A t \in Sessions : pc[t] # "wait"

\* Whether TaskDispatcher.stats may read self._stats now.
SnapshotAllowed(lock) == Free(lock)

\* A stats command that counts itself as a request.
StatsSnapshotCounted(t) ==
  /\ pc[t] = "stats"
  /\ SnapshotAllowed(stats_lock)
  /\ stats' = IncrementTotal(stats)
  /\ response' = [response EXCEPT ![t] = encode_response(snapshot(stats'), "ok")]
  /\ pc' = [pc EXCEPT ![t] = "respond"]
  /\ UNCHANGED <<SessionFrame, client_counter, lockVars, fut, current,
                 client_id, work, duration, logVars>>

\* TaskDispatcher.stats: with self._stats_lock: return self._stats.snapshot()
StatsSnapshot(t) ==
  /\ pc[t] = "stats"
  /\ SnapshotAllowed(stats_lock)
  /\ response' = [response EXCEPT ![t] = encode_response(snapshot(stats), "ok")]
  /\ pc' = [pc EXCEPT ![t] = "respond"]
  /\ UNCHANGED <<SessionFrame, client_counter, lockVars, stats, fut, current,
                 client_id, work, duration, logVars>>

\* A handler that hides every message from the client.
ReportedGeneric(exc) == <<"internal server error">>

\* What the handler records in last_error, and what it sends.
Recorded(exc) == IF IsProtocolOrValueError(exc) THEN Str(exc) ELSE Repr(exc)
Reported(exc) ==
  IF IsProtocolOrValueError(exc) THEN Str(exc) ELSE <<"internal server error">>

\* An error path that counts the failed request in total_requests.
SetLastErrorCounted(t) ==
  /\ pc[t] = "error"
  /\ Free(stats_lock)
  /\ stats' = [IncrementTotal(stats) EXCEPT !.last_error = Recorded(work[t])]
  /\ response' = [response EXCEPT ![t] = encode_error(Reported(work[t]))]
  /\ pc' = [pc EXCEPT ![t] = "respond"]
  /\ UNCHANGED <<SessionFrame, client_counter, lockVars, fut, current,
                 client_id, work, duration, logVars>>

\* set_last_error; the error frame
SetLastError(t) ==
  /\ pc[t] = "error"
  /\ Free(stats_lock)
  /\ stats' = [stats EXCEPT !.last_error = Recorded(work[t])]
  /\ response' = [response EXCEPT ![t] = encode_error(Reported(work[t]))]
  /\ pc' = [pc EXCEPT ![t] = "respond"]
  /\ UNCHANGED <<SessionFrame, client_counter, lockVars, fut, current,
                 client_id, work, duration, logVars>>

\* Where the session goes when connection.flush() has written the frame.
AfterResponse == "loop"

\* connection.write(...); finally: connection.flush()
Respond(t) ==
  /\ pc[t] = "respond"
  /\ nresp' = [nresp EXCEPT ![t] = @ + 1]
  /\ served' = IF work[t].ok /\ work[t].op \in DOMAIN served
               THEN [served EXCEPT ![work[t].op] = @ + 1] ELSE served
  /\ response' = [response EXCEPT ![t] = NoResponse]
  /\ raw' = [raw EXCEPT ![t] = NoLine]
  /\ work' = [work EXCEPT ![t] = Idle]
  /\ duration' = [duration EXCEPT ![t] = 0]
  /\ \/ pc' = [pc EXCEPT ![t] = AfterResponse]
     \/ pc' = [pc EXCEPT ![t] = AfterSocketError]
  /\ UNCHANGED <<SessionFrame, client_counter, lockVars, stats, fut, current,
                 client_id, nreq, events, assigned>>

\* increment_completed_clients, after the `with client_socket:` block
IncrementCompleted(t) ==
  /\ pc[t] = "closed"
  /\ Free(stats_lock)
  /\ stats' = [stats EXCEPT !.completed_clients = @ + 1]
  /\ events' = [events EXCEPT ![t] = Append(@, 0)]
  /\ pc' = [pc EXCEPT ![t] = "unregister"]
  /\ UNCHANGED <<SessionFrame, client_counter, lockVars, fut, localVars,
                 raw, nreq, nresp, served, assigned>>

Session(t) ==
  \/ RegisterCount(t) \/ RegisterCurrent(t) \/ SetActiveClients(t)
  \/ Greet(t) \/ GreetFails(t)
  \/ SessionLoopTest(t)
  \/ ReadFrame(t) \/ ReadEOF(t) \/ ReadFails(t)
  \/ Submit(t) \/ Result(t) \/ ResultRaises(t)
  \/ UpdateTotal(t) \/ UpdateCommand(t)
  \/ StatsSnapshot(t) \/ SetLastError(t)
  \/ Respond(t) \/ IncrementCompleted(t)

Next ==
  \/ LoopTest \/ Accept \/ AcceptTimeout \/ AcceptOSError \/ AppendThread
  \/ KeyboardInterrupt \/ JoinThread \/ JoinDone \/ PoolShutdown \/ PoolWait
  \/ Shutdown
  \/ \E t \in Sessions : Session(t)

Spec == Init /\ [][Next]_vars

\* ------------------------------------------------------------ scheduling
\* What the thread of session t does by itself once it can: every statement
\* of _handle_client but connection.readline(), which waits for the peer.
ServerStep(t) ==
  \/ RegisterCount(t) \/ RegisterCurrent(t) \/ SetActiveClients(t)
  \/ Greet(t) \/ GreetFails(t)
  \/ SessionLoopTest(t)
  \/ Submit(t) \/ Result(t) \/ ResultRaises(t)
  \/ UpdateTotal(t) \/ UpdateCommand(t)
  \/ StatsSnapshot(t) \/ SetLastError(t)
  \/ Respond(t) \/ IncrementCompleted(t)

\* The runs checked for progress: those of Next in which the peers send at
\* most MaxFairFrames lines in all.
FairNext == Next /\ FramesRead' <= MaxFairFrames

\* The interpreter runs every thread that can run: the statements of
\* serve_forever, accept() timing out after settimeout(1.0) when no
\* connection arrives, and the statements of each session.  Nothing obliges
\* a peer to connect, to send a line or to close, and nobody to call
\* shutdown() or to press Ctrl-C.
FairSpec ==
  /\ Init /\ [][FairNext]_vars
  /\ WF_vars(LoopTest) /\ WF_vars(AcceptTimeout) /\ WF_vars(AppendThread)
  /\ WF_vars(JoinThread) /\ WF_vars(JoinDone)
  /\ WF_vars(PoolShutdown) /\ WF_vars(PoolWait)
  /\ \A t \in Sessions : WF_vars(ServerStep(t))

\* ------------------------------------------------------------ calls
\* The functions of tasks.py and protocol.py, _dispatch_command with
\* _require_int, and execute_range / execute_count, each called on its own
\* on an argument drawn from the sets below.
serverVars ==
  <<shutdown_event, mainVars, pool, client_counter, lockVars, stats, fut, pc,
    localVars, logVars>>

Args == -2 .. MaxArg
Values ==
  { JNull, JBool(TRUE), JBool(FALSE), JInt(-1), JInt(7), JFloat, JStr("7"),
    JStr("PRIME"), JArray, JObj(EmptyMap) }
\* JSON objects with some of the keys, each with any of the values.
Maps(keys) == UNION {[D -> Values] : D \in SUBSET keys}
WireLines ==
  {NotJSON} \cup {Line(v) : v \in Values}
            \cup {Line(JObj(f)) : f \in Maps({"command", "data"})}
Messages ==
  {[command |-> "prime", data |-> d] : d \in Maps({"number"})}
  \cup {[command |-> c, data |-> d] :
          c \in {"range", "count"}, d \in Maps({"start", "end"})}
Pair(a, b) == [start |-> a, end |-> b]
Pairs == {Pair(a, b) : a \in Args, b \in Args}
ExecPairs == Pairs \cup {Pair(1, MaxEnd), Pair(MaxEnd, 1), Pair(1, MaxEnd - 6)}

Call(fn, args) == [fn |-> fn, args |-> args]
Returned(value) == [fn |-> "returned", value |-> value]
Calls ==
  {Call("is_prime", [n |-> n]) : n \in -MaxN .. MaxN}
  \cup {Call(f, p) : f \in {"primes_in_range", "count_primes"}, p \in Pairs}
  \cup {Call("from_wire", [raw |-> l]) : l \in WireLines}
  \cup {Call("_dispatch_command", [message |-> m]) : m \in Messages}
  \cup {Call(f, p) : f \in {"execute_range", "execute_count"}, p \in ExecPairs}

FnInit == ServerInit /\ fn_call \in Calls /\ fn_result = NoCall

Pending(fn) == fn_call.fn = fn /\ fn_result = NoCall

CallIsPrime ==
  /\ Pending("is_prime")
  /\ fn_result' = Returned(is_prime(fn_call.args.n))
  /\ UNCHANGED <<serverVars, fn_call>>

CallPrimesInRange ==
  /\ Pending("primes_in_range")
  /\ fn_result' = Returned(primes_in_range(fn_call.args.start, fn_call.args.end))
  /\ UNCHANGED <<serverVars, fn_call>>

CallCountPrimes ==
  /\ Pending("count_primes")
  /\ fn_result' = Returned(count_primes(fn_call.args.start, fn_call.args.end))
  /\ UNCHANGED <<serverVars, fn_call>>

CallFromWire ==
  /\ Pending("from_wire")
  /\ fn_result' = Returned(from_wire(fn_call.args.raw))
  /\ UNCHANGED <<serverVars, fn_call>>

CallDispatchCommand ==
  /\ Pending("_dispatch_command")
  /\ fn_result' = Returned(_dispatch_command(fn_call.args.message))
  /\ UNCHANGED <<serverVars, fn_call>>

\* execute_range(start, end) with a pool that returns the task's result.
CallExecuteRange ==
  /\ Pending("execute_range")
  /\ \E d \in Durations :
       fn_result' = Returned(Payload(
         [op |-> "range",
          args |-> <<JInt(fn_call.args.start), JInt(fn_call.args.end)>>], d))
  /\ UNCHANGED <<serverVars, fn_call>>

CallExecuteCount ==
  /\ Pending("execute_count")
  /\ \E d \in Durations :
       fn_result' = Returned(Payload(
         [op |-> "count",
          args |-> <<JInt(fn_call.args.start), JInt(fn_call.args.end)>>], d))
  /\ UNCHANGED <<serverVars, fn_call>>

FnNext ==
  \/ CallIsPrime \/ CallPrimesInRange \/ CallCountPrimes
  \/ CallFromWire \/ CallDispatchCommand
  \/ CallExecuteRange \/ CallExecuteCount

FnSpec == FnInit /\ [][FnNext]_vars

\* ------------------------------------------------------------ properties
Commands == {"prime", "range", "count"}
Consistent(s) ==
  s.total_requests = s.prime_checks + s.range_requests + s.range_counts
IsSnapshot(r) == r.status = "ok" /\ "total_requests" \in DOMAIN r.payload
InternalError == encode_error(<<"internal server error">>)
Occurrences(seq, x) == Cardinality({i \in DOMAIN seq : seq[i] = x})
AllTerminated == Spawned # {} /\ \A t \in Spawned : pc[t] \in Terminated
AllDone == Spawned = Sessions /\ \A t \in Sessions : pc[t] = "done"

\* The session has a successful response of this command ready to write.
Answering(t, op) == pc[t] = "respond" /\ work[t].ok /\ work[t].op = op

\* Successful requests of one command: responses written, plus those the
\* stats already count and a session is about to write.
Succeeded(op) == served[op] + Cardinality({t \in Sessions : Answering(t, op)})

\* The frame is the response _handle_client owes to the line.
Answers(line, r) ==
  LET w == Decode(line) IN
    IF ~w.ok THEN r = encode_error(Str(w))
    ELSE IF w.op = "stats" THEN IsSnapshot(r)
    ELSE \/ r = InternalError
         \/ \E d \in Durations : r = encode_response(Payload(w, d), "ok")

\* C1: whenever the stats lock is free, and in every snapshot a `stats`
\* request is given, total_requests is the sum of prime_checks,
\* range_requests and range_counts.
C1_SnapshotsConsistent ==
  /\ Free(stats_lock) => Consistent(stats)
  /\ \A t \in Sessions :
       IsSnapshot(response[t]) => Consistent(response[t].payload)

\* A session asks for the stats while another is half way through
\* _update_stats.
C1_Witness ==
  \E t, u \in Sessions :
    pc[t] = "stats" /\ pc[u] = "update_command" /\ ~Consistent(stats)

\* C2: once every session has finished _handle_client, active_clients is 0.
C2_ActiveClientsReturnsToZero == AllDone => stats.active_clients = 0

\* C3: a session that has ended, on whatever path, has registered +1 once
\* and -1 once.
C3_RegisteredOnEveryExit ==
  \A t \in Sessions :
    pc[t] \in Terminated =>
      Occurrences(events[t], 1) = 1 /\ Occurrences(events[t], 0 - 1) = 1

\* C4: every client id is greater than all ids assigned before it.
C4_ClientIdsIncrease ==
  \A i, j \in DOMAIN assigned : i < j => assigned[i] < assigned[j]

\* C5: completed_clients never exceeds the sessions that have left their
\* connection, and equals the sessions started once all have ended.
C5_CompletedCountsSessions ==
  /\ stats.completed_clients <=
       Cardinality({t \in Sessions :
                      pc[t] \in {"unregister", "unregister_cs", "inactive",
                                 "done"}})
  /\ AllTerminated => stats.completed_clients = Cardinality(Spawned)

\* C6: whenever the stats lock is free, each command's counter is the number
\* of successful requests of that command, and total_requests the number of
\* all of them: none lost, none counted twice.
C6_NoLostUpdates ==
  Free(stats_lock) =>
    /\ stats.prime_checks = Succeeded("prime")
    /\ stats.range_requests = Succeeded("range")
    /\ stats.range_counts = Succeeded("count")
    /\ stats.total_requests =
         Succeeded("prime") + Succeeded("range") + Succeeded("count")

\* Every session has been answered one computation and has ended.
C6_Witness ==
  /\ AllDone
  /\ \A t \in Sessions : nreq[t] = 1 /\ nresp[t] = 2
  /\ served["prime"] + served["range"] + served["count"] = MaxSessions
  /\ stats.total_requests = MaxSessions
  /\ stats.range_counts >= 1

\* C7: a line that raises a protocol error is answered with one error frame
\* carrying the message, the message is recorded in last_error, and the
\* session is back at the head of its loop once the frame is flushed.
C7_Step ==
  \A t \in Sessions :
    (raw[t] # NoLine /\ ~Decode(raw[t]).ok) =>
      /\ (pc[t] = "error" /\ pc'[t] # "error") =>
           /\ pc'[t] = "respond"
           /\ response'[t] = encode_error(Decode(raw[t]).error)
           /\ stats'.last_error = Decode(raw[t]).error
      /\ (pc[t] = "respond" /\ pc'[t] # "respond") =>
           /\ response[t] = encode_error(Decode(raw[t]).error)
           /\ nresp'[t] = nresp[t] + 1
           /\ pc'[t] = "loop" \/ pc'[t] = AfterSocketError
C7_ProtocolErrorAnswered == [][C7_Step]_vars

\* The only session was sent an error for its first line and has a
\* successful response to its second.
C7_Witness ==
  \E t \in Sessions :
    /\ Spawned = {t}
    /\ nreq[t] = 2 /\ nresp[t] = 2
    /\ stats.last_error = <<"unknown command: ", "bogus">>
    /\ \E op \in Commands : Answering(t, op)

\* C8: a valid request whose handling fails is answered with exactly
\* "internal server error", the failure is recorded in last_error, and the
\* session is back at the head of its loop once the frame is flushed.
C8_Step ==
  \A t \in Sessions :
    (raw[t] # NoLine /\ Decode(raw[t]).ok) =>
      /\ (pc[t] = "error" /\ pc'[t] # "error") =>
           /\ pc'[t] = "respond"
           /\ response'[t] = InternalError
           /\ stats'.last_error = Repr(work[t])
      /\ (pc[t] = "respond" /\ ~work[t].ok /\ pc'[t] # "respond") =>
           /\ response[t] = InternalError
           /\ nresp'[t] = nresp[t] + 1
           /\ pc'[t] = "loop" \/ pc'[t] = AfterSocketError
C8_InternalErrorHidden == [][C8_Step]_vars

\* The only session was sent "internal server error" for its first line,
\* after a worker died, and has a successful response to its second.
C8_Witness ==
  \E t \in Sessions :
    /\ Spawned = {t}
    /\ nreq[t] = 2 /\ nresp[t] = 2
    /\ stats.last_error # None /\ stats.last_error[1] = "BrokenProcessPool"
    /\ \E op \in Commands : Answering(t, op)

\* C9: the greeting is the first frame a session writes; a line is read only
\* when every line before it has been answered; the frame written after the
\* i-th line is the response to that line.
C9_InOrder ==
  \A t \in Sessions :
    /\ nresp[t] \in {nreq[t], nreq[t] + 1}
    /\ nreq[t] > 0 => nresp[t] > 0
    /\ pc[t] = "greet" => nresp[t] = 0 /\ response[t] = Greeting(client_id[t])
    /\ pc[t] = "read" => nresp[t] = nreq[t] + 1
    /\ pc[t] = "respond" => nresp[t] = nreq[t] /\ Answers(raw[t], response[t])
    /\ pc[t] \notin {"greet", "respond"} => response[t] = NoResponse

\* A session answers its second line while another session is being served.
C9_Witness ==
  \E t, u \in Sessions :
    /\ nreq[t] = 2 /\ pc[t] = "respond" /\ response[t].status = "ok"
    /\ pc[u] = "read"

\* C10: the pool is shut down only when the accept loop has stopped and every
\* session thread that was started has ended.
C10_PoolShutdownLast ==
  pool = "shutdown" =>
    /\ mpc \notin {"loop", "accept", "append"}
    /\ \A t \in Spawned : pc[t] \in Terminated

\* Positions of serve_forever inside its accept loop.
InLoop == {"loop", "accept", "append"}

\* C11: once the shutdown flag is set the accept loop is eventually left, and
\* once it is left no connection is accepted and no session is started.
C11_LoopObservesShutdown ==
  /\ shutdown_event ~> (mpc \notin InLoop)
  /\ [][mpc \notin InLoop => (mpc' \notin InLoop /\ Spawned' = Spawned)]_vars

\* The loop was left on the flag while a connection could still be accepted.
C11_Witness ==
  /\ shutdown_event /\ mpc = "join" /\ Spawned # {} /\ Spawned # Sessions
  /\ Len(threads) = Cardinality(Spawned)

\* C12: after a shutdown request serve_forever eventually shuts the pool
\* down and returns, whatever the peers do.
C12_DrainBounded == shutdown_event ~> (mpc = "returned")

\* C13: a session waiting for a pool result holds neither lock, and any other
\* session can read a frame, be given its stats snapshot and write its
\* response; only a session that is not waiting can hold the stats lock.
C13_WaitBlocksNobody ==
  \A t \in Sessions : pc[t] = "wait" =>
    /\ stats_lock # t
    /\ client_counter_lock # t
    /\ \A u \in Sessions \ {t} :
         /\ (pc[u] = "read" /\ FramesRead < MaxFrames) => ENABLED ReadFrame(u)
         /\ (pc[u] = "stats" /\ stats_lock \notin Sessions \ {t})
              => ENABLED StatsSnapshot(u)
         /\ pc[u] = "respond" => ENABLED Respond(u)

\* One session waits for the pool while another is about to take a snapshot.
C13_Witness ==
  \E t, u \in Sessions : pc[t] = "wait" /\ fut[t] = "pending" /\ pc[u] = "stats"

\* The fields of ServerStats a snapshot reports as they are.
ReportedFields ==
  {"total_requests", "prime_checks", "range_requests", "range_counts",
   "active_clients", "completed_clients", "last_error"}

\* C14: the steps that handle a stats frame (decode and dispatch, snapshot,
\* write) change no stats field and no future, and the response is an ok
\* frame carrying the current values.
C14_Step ==
  \A t \in Sessions :
    /\ (pc[t] = "read" /\ pc'[t] = "stats") => (stats' = stats /\ fut' = fut)
    /\ (pc[t] = "stats" /\ pc'[t] # "stats") =>
         /\ stats' = stats /\ fut' = fut /\ pool' = pool
         /\ response'[t].status = "ok"
         /\ \A f \in ReportedFields : response'[t].payload[f] = stats[f]
         /\ response'[t].payload.max_duration_sec = stats.max_duration
         /\ response'[t].payload.average_duration_sec = average_duration(stats)
    /\ (pc[t] = "respond" /\ work[t].ok /\ work[t].op = "stats"
          /\ pc'[t] # "respond") => (stats' = stats /\ fut' = fut)

C14_StatsReadOnly == [][C14_Step]_vars

\* A stats response is ready after other requests have been counted.
C14_Witness ==
  \E t \in Sessions :
    /\ pc[t] = "respond" /\ work[t].ok /\ work[t].op = "stats"
    /\ IsSnapshot(response[t]) /\ response[t].payload.total_requests > 0

\* A call of fn has returned.
Done(fn) == fn_call.fn = fn /\ fn_result # NoCall

\* The integer fields each command requires.
RequiredFields(command) ==
  IF command = "prime" THEN {"number"} ELSE {"start", "end"}

\* C15: a prime, range or count request is accepted when every required
\* field holds a JSON integer, and otherwise fails with the ProtocolError
\* "field '<key>' must be an integer" of a field that is absent or holds
\* anything else, booleans included.
C15_IntegerFieldsOnly ==
  Done("_dispatch_command") =>
    LET data == fn_call.args.message.data
        bad == {key \in RequiredFields(fn_call.args.message.command) :
                  key \notin DOMAIN data \/ data[key].t # "int"}
        r == fn_result.value
    IN IF bad = {} THEN r.ok
       ELSE /\ ~r.ok
            /\ \E key \in bad :
                 r = ProtocolError(<<"field '", key, "' must be an integer">>)

\* C16: from_wire raises ProtocolError exactly when the line is not JSON, is
\* not an object, has no string command, or has a data field that is not an
\* object (null included); otherwise it returns the lower-cased command with
\* the given data, or with the empty mapping when there is no data field.
C16_FromWireRejects ==
  Done("from_wire") =>
    LET line == fn_call.args.raw
        r == fn_result.value
        f == line.value.f
        bad == \/ ~line.valid
               \/ line.value.t # "object"
               \/ "command" \notin DOMAIN f
               \/ f["command"].t # "str"
               \/ ("data" \in DOMAIN f /\ f["data"].t # "object")
    IN IF bad THEN ~r.ok /\ r.class = "ProtocolError"
       ELSE /\ r.ok
            /\ r.command = Lower(f["command"].s)
            /\ r.data = IF "data" \in DOMAIN f THEN f["data"].f ELSE EmptyMap

\* Primality by definition, and the primes between two bounds in any order.
HasNoDivisor(n) == \A d \in 2 .. n - 1 : n % d # 0
PrimesBetween(a, b) ==
  {n \in (IF a < b THEN a ELSE b) .. (IF a < b THEN b ELSE a) :
     n >= 2 /\ HasNoDivisor(n)}
Ascending(seq) == \A i \in 1 .. Len(seq) - 1 : seq[i] < seq[i + 1]
Elements(seq) == {seq[i] : i \in DOMAIN seq}

\* C17: the payload of execute_range counts all the primes of the range,
\* lists the first min(count, 200) of them in ascending order, and says
\* truncated exactly when count > 200.
C17_RangeResponse ==
  Done("execute_range") =>
    LET p == fn_result.value
        all == PrimesBetween(fn_call.args.start, fn_call.args.end)
        listed == Elements(p.primes)
    IN /\ p.count = Cardinality(all)
       /\ Len(p.primes) = IF p.count < RangeLimit THEN p.count ELSE RangeLimit
       /\ Ascending(p.primes)
       /\ listed \subseteq all
       /\ \A n \in all \ listed : \A m \in listed : m < n
       /\ p.truncated = (p.count > RangeLimit)

\* A range with more primes than the limit was answered.
C17_Witness ==
  /\ Done("execute_range")
  /\ fn_result.value.truncated
  /\ fn_result.value.count > Len(fn_result.value.primes)

\* C18: is_prime(n) is true exactly when n >= 2 and no d with 1 < d < n
\* divides n.
C18_IsPrimeCorrect ==
  Done("is_prime") =>
    fn_result.value = (fn_call.args.n >= 2 /\ HasNoDivisor(fn_call.args.n))

\* A composite whose least divisor is of the form 6k+1 was rejected.
C18_Witness ==
  Done("is_prime") /\ fn_call.args.n = 49 /\ fn_result.value = FALSE

\* C19: primes_in_range(a, b) is primes_in_range(b, a), and is the primes of
\* [min(a, b), max(a, b)] in strictly ascending order.
C19_RangeSymmetric ==
  Done("primes_in_range") =>
    LET a == fn_call.args.start
        b == fn_call.args.end
    IN /\ fn_result.value = primes_in_range(b, a)
       /\ Ascending(fn_result.value)
       /\ Elements(fn_result.value) = PrimesBetween(a, b)
       /\ Len(fn_result.value) = Cardinality(PrimesBetween(a, b))

\* A call with start > end returned primes.
C19_Witness ==
  /\ Done("primes_in_range")
  /\ fn_call.args.start > fn_call.args.end
  /\ Len(fn_result.value) >= 4

\* C20: count_primes(a, b) is the length of primes_in_range(a, b), also
\* when a > b, and execute_count reports the count execute_range reports.
C20_CountIsLength ==
  /\ Done("count_primes") =>
       /\ fn_result.value
            = Len(primes_in_range(fn_call.args.start, fn_call.args.end))
       /\ fn_result.value
            = Cardinality(PrimesBetween(fn_call.args.start, fn_call.args.end))
  /\ Done("execute_count") =>
       \A d \in Durations :
         fn_result.value.count =
           Payload([op |-> "range",
                    args |-> <<JInt(fn_call.args.start),
                               JInt(fn_call.args.end)>>], d).count

\* The count of a swapped range: the four primes between 10 and 1.
C20_Witness ==
  /\ Done("execute_count")
  /\ fn_call.args = Pair(10, 1)
  /\ fn_result.value.count = 4

\* The request counters and the duration fields of ServerStats.
CountedFields ==
  {"total_requests", "prime_checks", "range_requests", "range_counts",
   "cumulative_duration", "max_duration"}

\* C21: the steps of a request that fails (the decode or validation that
\* raises, the submit or result that raises, set_last_error, the write of the
\* error frame) leave the counters and durations as they are and change only
\* last_error; a frame that fails decoding or validation submits nothing.
C21_Step ==
  \A t \in Sessions :
    /\ (pc[t] = "read" /\ pc'[t] = "error") =>
         (stats' = stats /\ fut' = fut /\ fut[t] = "none")
    /\ (pc[t] \in {"submit", "wait"} /\ pc'[t] = "error") => stats' = stats
    /\ (pc[t] = "error" /\ pc'[t] # "error") =>
         /\ \A f \in CountedFields : stats'[f] = stats[f]
         /\ stats' = [stats EXCEPT !.last_error = Recorded(work[t])]
         /\ fut' = fut
    /\ (pc[t] = "respond" /\ ~work[t].ok /\ pc'[t] # "respond") =>
         (stats' = stats /\ fut' = fut)

C21_FailureCountsNothing == [][C21_Step]_vars

\* After one counted request, a compute call has raised and its error frame
\* is ready.
C21_Witness ==
  \E t \in Sessions :
    /\ pc[t] = "respond" /\ ~work[t].ok
    /\ work[t].class = "BrokenProcessPool"
    /\ stats.total_requests = 1 /\ stats.last_error = Repr(work[t])

\* Successful compute responses written so far, on all connections: at
\* least those written on any one of them.
ServedTotal == served["prime"] + served["range"] + served["count"]

\* C22: a successful compute request is counted before its response is
\* written, and a snapshot counts every successful compute response already
\* written, so at least the k the asking session has received.
C22_Step ==
  \A t \in Sessions :
    /\ (pc[t] = "respond" /\ work[t].ok /\ work[t].op \in Commands
          /\ pc'[t] # "respond") => stats.total_requests >= ServedTotal'
    /\ (pc[t] = "stats" /\ pc'[t] = "respond") =>
         response'[t].payload.total_requests >= ServedTotal

C22_SeesOwnRequests == [][C22_Step]_vars

\* A session that got a compute response, alone to have sent anything, is
\* about to get a snapshot.
C22_Witness ==
  \E t \in Sessions :
    /\ nreq[t] = 2 /\ \A u \in Sessions \ {t} : nreq[u] = 0
    /\ ServedTotal = 1
    /\ pc[t] = "respond" /\ IsSnapshot(response[t])
    /\ response[t].payload.total_requests = 1

\* Positions where a session asks for the counter lock or the stats lock.
AsksForLock ==
  {"register", "unregister", "active", "inactive", "update", "stats",
   "error", "closed"}

\* A session holds the counter lock only between the two statements of
\* _register_client's block and the stats lock only inside _update_stats,
\* never both, and whoever holds a lock can go on.
LocksHeldBriefly ==
  \A t \in Sessions :
    /\ client_counter_lock = t => pc[t] \in {"register_cs", "unregister_cs"}
    /\ stats_lock = t => pc[t] = "update_command"
    /\ ~(client_counter_lock = t /\ stats_lock = t)
    /\ client_counter_lock = t => ENABLED RegisterCurrent(t)
    /\ stats_lock = t => ENABLED UpdateCommand(t)

\* C23: no thread holds both locks or holds one across a socket operation or
\* a wait for the pool, the holder of a lock can always go on, and a session
\* that asks for a lock gets it: the only step out of a position where a
\* lock is asked for is the one that takes it, and no session stays in such
\* positions for ever.
C23_LocksNeverBlock ==
  /\ []LocksHeldBriefly
  /\ \A t \in Sessions : []<>(pc[t] \notin AsksForLock)

\* A session asks for the stats lock while another holds it.
C23_Witness ==
  \E t, u \in Sessions :
    /\ t # u /\ stats_lock = u
    /\ pc[t] \in {"active", "inactive", "closed"}

====
